---- MODULE Spec2Model ----
(***************************************************************************)
(* ChunkParamMgr (recsys/modules/embeddings/chunk_param_mgr.py): a chunked *)
(* two-tier cache of an embedding weight.  The host tier (cpu_weight)      *)
(* holds every chunk; the fast tier (cuda_partial_weight) holds at most    *)
(* cuda_chunk_num chunks.  prepare_ids swaps the chunks of a batch in and  *)
(* translates row ids to fast-tier row addresses.                          *)
(* ChunkCUDAWeightMgr (recsys/modules/embeddings/freq_aware_embedding.py)  *)
(* is the list-and-dict manager of the same design; the variable mgr_class *)
(* says which of the two classes the object is, and the fields the two     *)
(* classes share are the same variables.                                   *)
(*                                                                         *)
(* Tensors are modelled as functions over 0-based index ranges, the        *)
(* python lists as sequences, the python dicts as functions whose domain   *)
(* is the key set.  One action models one public call, run to completion   *)
(* (the design is single-threaded and synchronous).                        *)
(***************************************************************************)
EXTENDS Integers, Sequences, FiniteSets, TLC

(* ------------------------------ bounds -------------------------------- *)
\* largest num_embeddings a constructed manager has
MaxRows == 3
\* largest chunk_size
MaxChunkSize == 2
\* largest cuda_chunk_num
MaxCapacity == 2
\* largest embedding_dim
MaxEmbeddingDim == 1
\* longest batch handed to prepare_ids
MaxBatchLen == 2
\* prepare_ids calls per behaviour (the histories grow by one entry per call)
MaxCalls == 2
\* largest frequency in an ids_freq_mapping
MaxFreq == 1
\* elements a behaviour's training steps have written so far
MaxUpdates == 1
\* batch length and number of calls of the 8-row scenario specification
ScenarioBatchLen == 2
ScenarioCalls == 3
\* largest frequency in the specification that only reorders
ReorderMaxFreq == 2
\* chunks a ChunkCUDAWeightMgr has admitted before its last prepare_ids call
MaxAdmissions == 3
\* longest batch in the specification whose batches hold ids outside the table
InputBatchLen == 2
\* largest embedding_dim in the specification of the slot regions
RegionMaxDim == 2
\* direct _admit calls per behaviour in the specification of the private methods
MaxAdmitCalls == 3

(* ------------------------------ state --------------------------------- *)
VARIABLES
    mgr_class,                   \* the class of the object: ChunkParamMgr or ChunkCUDAWeightMgr
    chunk_size,                  \* constructor argument
    num_embeddings,              \* weight.shape[0]
    embedding_dim,               \* weight.shape[1]
    cuda_chunk_num,              \* constructor argument: the capacity in chunks
    cpu_weight,                  \* host store, flat, padded to chunk_num * chunk_size rows
    cuda_partial_weight,         \* fast-tier buffer, flat, cuda_chunk_num * chunk_size rows
    IMP_chunkid_Embedding,       \* id -> chunk_id
    IMP_offsetinchunk_Embedding, \* id -> offset_in_chunk
    index_mapping_table,         \* list of (chunk_id, offset_in_chunk), one entry per id
    cached_chunk_table,          \* dict slot_idx -> (chunk_id, offset)
    cached_chunk_ids,            \* list of resident chunk ids
    cpu_chunk_embedding,         \* chunk_id -> 0 on cuda, 1 on cpu
    chunk_id_cuda_offset,        \* dict chunk_id -> offset
    CCT,                         \* chunk_id -> offset in cuda_partial_weight
    evict_backlist,              \* chunks _evict must not select
    num_hits_history,
    num_miss_history,
    num_write_back_history,
    cpu_to_cuda_numel,           \* self._cpu_to_cuda_numel
    cuda_to_cpu_numel,           \* self._cuda_to_cpu_numel
    op,                          \* observer: the call that produced this state
    ids,                         \* observer: the batch of the last prepare_ids call
    ret,                         \* observer: outcome and return value of the last call
    evict_log,                   \* observer: chunks written back by the last call, in order
    admit_log,                   \* observer: chunks admitted by the last call, in order
    evict_calls,                 \* observer: the _evict calls of the last call, each with the
                                 \*           fields it found and the fields it left
    reordered,                   \* observer: reorder() has built the index mapping
    ids_freq_mapping             \* observer: the frequency list the call was given (None if none)

cfg_vars == <<mgr_class, chunk_size, num_embeddings, embedding_dim, cuda_chunk_num>>
imp_vars == <<IMP_chunkid_Embedding, IMP_offsetinchunk_Embedding, index_mapping_table,
              reordered>>
mgr_vars == <<cpu_weight, cuda_partial_weight, cached_chunk_table, cached_chunk_ids,
              cpu_chunk_embedding, chunk_id_cuda_offset, CCT, evict_backlist,
              cpu_to_cuda_numel, cuda_to_cpu_numel>>
hist_vars == <<num_hits_history, num_miss_history, num_write_back_history>>
obs_vars == <<op, ids, ret, evict_log, admit_log, evict_calls, ids_freq_mapping>>
vars == <<cfg_vars, imp_vars, mgr_vars, hist_vars, obs_vars>>

(* ----------------------------- helpers -------------------------------- *)
\* self.chunk_num = (num_embeddings + chunk_size - 1) // chunk_size
chunk_num == (num_embeddings + chunk_size - 1) \div chunk_size

\* the row ids of the table
Ids == 0 .. (num_embeddings - 1)

\* the content of an embedding table never written: torch.nn.Embedding draws it
\* at random; the model marks it with a value no offset can take
Garbage == 0 - 1

\* python's None as ids_freq_mapping: the list with no entry (a frequency list
\* has one entry per id and a manager has at least one id)
None == << >>
IsNone(x) == DOMAIN x = {}

Min(S) == CHOOSE x \in S : \A y \in S : x <= y

RECURSIVE SortedSeq(_)
\* the elements of a finite set of integers in ascending order (torch.unique sorts)
SortedSeq(S) == IF S = {} THEN << >> ELSE << Min(S) >> \o SortedSeq(S \ {Min(S)})

RECURSIVE SumSeq(_)
SumSeq(s) == IF s = << >> THEN 0 ELSE Head(s) + SumSeq(Tail(s))

\* mutant: the list is left as it is
RemoveFirst_Keep(s, x) == s

\* list.remove(x): drops the first element equal to x
RemoveFirst(s, x) ==
    IF \E i \in 1 .. Len(s) : s[i] = x
    THEN LET i == Min({j \in 1 .. Len(s) : s[j] = x})
         IN  SubSeq(s, 1, i - 1) \o SubSeq(s, i + 1, Len(s))
    ELSE s

\* dict.pop(k) and dict[k] = v
DictPop(d, k) == [x \in (DOMAIN d) \ {k} |-> d[x]]
DictSet(d, k, v) == [x \in (DOMAIN d) \cup {k} |-> IF x = k THEN v ELSE d[x]]

\* mutant: the copy stops one element short of the chunk
CopyRegion_OneShort(dst, dst_start, src, src_start, len) ==
    [e \in DOMAIN dst |->
        IF e >= dst_start /\ e < dst_start + len - 1 THEN src[src_start + (e - dst_start)]
        ELSE dst[e]]

\* dst[dst_start .. dst_start+len) = src[src_start .. src_start+len)  (narrow + copy_)
CopyRegion(dst, dst_start, src, src_start, len) ==
    [e \in DOMAIN dst |->
        IF e >= dst_start /\ e < dst_start + len THEN src[src_start + (e - dst_start)]
        ELSE dst[e]]

\* the manager's mutable fields as one record, threaded through the private methods
Self ==
    [cpu_weight |-> cpu_weight, cuda_partial_weight |-> cuda_partial_weight,
     cached_chunk_table |-> cached_chunk_table, cached_chunk_ids |-> cached_chunk_ids,
     cpu_chunk_embedding |-> cpu_chunk_embedding,
     chunk_id_cuda_offset |-> chunk_id_cuda_offset, CCT |-> CCT,
     evict_backlist |-> evict_backlist,
     cpu_to_cuda_numel |-> cpu_to_cuda_numel, cuda_to_cpu_numel |-> cuda_to_cpu_numel,
     evict_log |-> << >>, admit_log |-> << >>, evict_calls |-> << >>,
     raised |-> "none", slot |-> 0 - 1]

Commit(s) ==
    /\ cpu_weight' = s.cpu_weight
    /\ cuda_partial_weight' = s.cuda_partial_weight
    /\ cached_chunk_table' = s.cached_chunk_table
    /\ cached_chunk_ids' = s.cached_chunk_ids
    /\ cpu_chunk_embedding' = s.cpu_chunk_embedding
    /\ chunk_id_cuda_offset' = s.chunk_id_cuda_offset
    /\ CCT' = s.CCT
    /\ evict_backlist' = s.evict_backlist
    /\ cpu_to_cuda_numel' = s.cpu_to_cuda_numel
    /\ cuda_to_cpu_numel' = s.cuda_to_cpu_numel
    /\ evict_log' = s.evict_log
    /\ evict_calls' = s.evict_calls
    /\ admit_log' = s.admit_log

(* ------------------------- private methods ---------------------------- *)
\* _chunk_in_cuda: some slot of cached_chunk_table holds chunk_id
_chunk_in_cuda(s, chunk_id) ==
    \E slot_idx \in DOMAIN s.cached_chunk_table :
        s.cached_chunk_table[slot_idx].chunk_id = chunk_id

\* mutant: the range starts at slot 1
_find_free_cuda_slot_SkipZero(s) ==
    LET free == {slot_idx \in 1 .. (cuda_chunk_num - 1) :
                     slot_idx \notin DOMAIN s.cached_chunk_table}
    IN  IF free = {} THEN 0 - 1 ELSE Min(free)

\* mutant: the range runs one slot past the capacity
_find_free_cuda_slot_PastCapacity(s) ==
    LET free == {slot_idx \in 0 .. cuda_chunk_num :
                     slot_idx \notin DOMAIN s.cached_chunk_table}
    IN  IF free = {} THEN 0 - 1 ELSE Min(free)

\* mutant: the last free slot of the range instead of the first
_find_free_cuda_slot_LastFree(s) ==
    LET free == {slot_idx \in 0 .. (cuda_chunk_num - 1) :
                     slot_idx \notin DOMAIN s.cached_chunk_table}
    IN  IF free = {} THEN 0 - 1 ELSE CHOOSE x \in free : \A y \in free : y <= x

\* _find_free_cuda_slot: first slot_idx of range(cuda_chunk_num) that is no key
_find_free_cuda_slot(s) ==
    LET free == {slot_idx \in 0 .. (cuda_chunk_num - 1) :
                     slot_idx \notin DOMAIN s.cached_chunk_table}
    IN  IF free = {} THEN 0 - 1 ELSE Min(free)

\* mutant: min_chunk_id starts at chunk_num - 1, so the last chunk is never below it
EvictCandidates_LowStart(s) ==
    {slot_id \in DOMAIN s.cached_chunk_table :
        /\ s.cached_chunk_table[slot_id].chunk_id < chunk_num - 1
        /\ s.cached_chunk_table[slot_id].chunk_id \notin s.evict_backlist}

\* mutant: the loop of _evict does not consult evict_backlist
EvictCandidates_IgnoreBacklist(s) ==
    {slot_id \in DOMAIN s.cached_chunk_table :
        s.cached_chunk_table[slot_id].chunk_id < 2 * chunk_num}

\* the slot the loop of _evict ends on: the smallest chunk_id below 2 * chunk_num
\* that is not in evict_backlist (strict <: the first such entry wins)
EvictCandidates(s) ==
    {slot_id \in DOMAIN s.cached_chunk_table :
        /\ s.cached_chunk_table[slot_id].chunk_id < 2 * chunk_num
        /\ s.cached_chunk_table[slot_id].chunk_id \notin s.evict_backlist}

\* the fields a claim about _evict speaks of
EvictSnapshot(s) ==
    [cached_chunk_table |-> s.cached_chunk_table,
     cached_chunk_ids |-> s.cached_chunk_ids,
     cpu_chunk_embedding |-> s.cpu_chunk_embedding,
     chunk_id_cuda_offset |-> s.chunk_id_cuda_offset,
     cpu_weight |-> s.cpu_weight,
     cpu_to_cuda_numel |-> s.cpu_to_cuda_numel,
     cuda_to_cpu_numel |-> s.cuda_to_cpu_numel]

\* one _evict call entered with the fields s and left with the fields done,
\* added to the observer of the _evict calls
Observed(s, done) ==
    [done EXCEPT !.evict_calls =
        Append(s.evict_calls,
               [before |-> EvictSnapshot(s), backlist |-> s.evict_backlist,
                after |-> EvictSnapshot(done), raised |-> done.raised # "none"])]

\* mutant: the write-back also zeroes the counter of the other direction
_evict_ZeroesAdmitCounter(s) ==
    LET cand == EvictCandidates(s)
        done ==
        IF cand = {} THEN [s EXCEPT !.raised = "RuntimeError"]
        ELSE
        LET min_chunk_id == Min({s.cached_chunk_table[x].chunk_id : x \in cand})
            min_slot_id == Min({x \in cand : s.cached_chunk_table[x].chunk_id = min_chunk_id})
            min_offset == s.cached_chunk_table[min_slot_id].offset
            numel == chunk_size * embedding_dim
        IN  [s EXCEPT
               !.cpu_weight = CopyRegion(s.cpu_weight, min_chunk_id * numel,
                                         s.cuda_partial_weight, min_offset * embedding_dim,
                                         numel),
               !.cached_chunk_table = DictPop(s.cached_chunk_table, min_slot_id),
               !.chunk_id_cuda_offset = DictPop(s.chunk_id_cuda_offset, min_chunk_id),
               !.cached_chunk_ids = RemoveFirst(s.cached_chunk_ids, min_chunk_id),
               !.cpu_chunk_embedding = [s.cpu_chunk_embedding EXCEPT ![min_chunk_id] = 1],
               !.cuda_to_cpu_numel = s.cuda_to_cpu_numel + numel,
               !.cpu_to_cuda_numel = 0,
               !.evict_log = Append(s.evict_log, min_chunk_id),
               !.slot = min_slot_id]
    IN  Observed(s, done)

\* mutant: the write-back leaves the chunk's residency flag at 0
_evict_KeepsFlag(s) ==
    LET cand == EvictCandidates(s)
        done ==
        IF cand = {} THEN [s EXCEPT !.raised = "RuntimeError"]
        ELSE
        LET min_chunk_id == Min({s.cached_chunk_table[x].chunk_id : x \in cand})
            min_slot_id == Min({x \in cand : s.cached_chunk_table[x].chunk_id = min_chunk_id})
            min_offset == s.cached_chunk_table[min_slot_id].offset
            numel == chunk_size * embedding_dim
        IN  [s EXCEPT
               !.cpu_weight = CopyRegion(s.cpu_weight, min_chunk_id * numel,
                                         s.cuda_partial_weight, min_offset * embedding_dim,
                                         numel),
               !.cached_chunk_table = DictPop(s.cached_chunk_table, min_slot_id),
               !.chunk_id_cuda_offset = DictPop(s.chunk_id_cuda_offset, min_chunk_id),
               !.cached_chunk_ids = RemoveFirst(s.cached_chunk_ids, min_chunk_id),
               !.cuda_to_cpu_numel = s.cuda_to_cpu_numel + numel,
               !.evict_log = Append(s.evict_log, min_chunk_id),
               !.slot = min_slot_id]
    IN  Observed(s, done)

\* _evict: the resident chunk with the lowest id outside evict_backlist is copied
\* to cpu_weight and taken out of every residency structure; returns its slot
_evict(s) ==
    LET cand == EvictCandidates(s)
        done ==
        IF cand = {} THEN [s EXCEPT !.raised = "RuntimeError"]
        ELSE
        LET min_chunk_id == Min({s.cached_chunk_table[x].chunk_id : x \in cand})
            min_slot_id == Min({x \in cand : s.cached_chunk_table[x].chunk_id = min_chunk_id})
            min_offset == s.cached_chunk_table[min_slot_id].offset
            numel == chunk_size * embedding_dim
        IN  [s EXCEPT
               !.cpu_weight = CopyRegion(s.cpu_weight, min_chunk_id * numel,
                                         s.cuda_partial_weight, min_offset * embedding_dim,
                                         numel),
               !.cached_chunk_table = DictPop(s.cached_chunk_table, min_slot_id),
               !.chunk_id_cuda_offset = DictPop(s.chunk_id_cuda_offset, min_chunk_id),
               !.cached_chunk_ids = RemoveFirst(s.cached_chunk_ids, min_chunk_id),
               !.cpu_chunk_embedding = [s.cpu_chunk_embedding EXCEPT ![min_chunk_id] = 1],
               !.cuda_to_cpu_numel = s.cuda_to_cpu_numel + numel,
               !.evict_log = Append(s.evict_log, min_chunk_id),
               !.slot = min_slot_id]
    IN  Observed(s, done)

\* mutant: the admission counts the rows of the chunk and one more
_admit_CountsRows(s, chunk_id) ==
    LET free == _find_free_cuda_slot(s)
        s1 == IF free = 0 - 1 THEN _evict(s) ELSE [s EXCEPT !.slot = free]
    IN  IF s1.raised # "none" THEN s1
        ELSE
        LET slot_id == s1.slot
            slot_offset == slot_id * chunk_size
            numel == chunk_size * embedding_dim
        IN  [s1 EXCEPT
               !.cuda_partial_weight = CopyRegion(s1.cuda_partial_weight,
                                                  slot_offset * embedding_dim,
                                                  s1.cpu_weight, chunk_id * numel, numel),
               !.cached_chunk_table = DictSet(s1.cached_chunk_table, slot_id,
                                              [chunk_id |-> chunk_id, offset |-> slot_offset]),
               !.cached_chunk_ids = Append(s1.cached_chunk_ids, chunk_id),
               !.cpu_chunk_embedding = [s1.cpu_chunk_embedding EXCEPT ![chunk_id] = 0],
               !.chunk_id_cuda_offset = DictSet(s1.chunk_id_cuda_offset, chunk_id, slot_offset),
               !.CCT = [s1.CCT EXCEPT ![chunk_id] = slot_offset],
               !.cpu_to_cuda_numel = s1.cpu_to_cuda_numel + chunk_size + 1,
               !.admit_log = Append(s1.admit_log, chunk_id)]

\* _admit: the chunk goes into the free slot, or into the slot _evict returns
_admit(s, chunk_id) ==
    LET free == _find_free_cuda_slot(s)
        s1 == IF free = 0 - 1 THEN _evict(s) ELSE [s EXCEPT !.slot = free]
    IN  IF s1.raised # "none" THEN s1
        ELSE
        LET slot_id == s1.slot
            slot_offset == slot_id * chunk_size
            numel == chunk_size * embedding_dim
        IN  [s1 EXCEPT
               !.cuda_partial_weight = CopyRegion(s1.cuda_partial_weight,
                                                  slot_offset * embedding_dim,
                                                  s1.cpu_weight, chunk_id * numel, numel),
               !.cached_chunk_table = DictSet(s1.cached_chunk_table, slot_id,
                                              [chunk_id |-> chunk_id, offset |-> slot_offset]),
               !.cached_chunk_ids = Append(s1.cached_chunk_ids, chunk_id),
               !.cpu_chunk_embedding = [s1.cpu_chunk_embedding EXCEPT ![chunk_id] = 0],
               !.chunk_id_cuda_offset = DictSet(s1.chunk_id_cuda_offset, chunk_id, slot_offset),
               !.CCT = [s1.CCT EXCEPT ![chunk_id] = slot_offset],
               !.cpu_to_cuda_numel = s1.cpu_to_cuda_numel + numel,
               !.admit_log = Append(s1.admit_log, chunk_id)]

RECURSIVE _prepare_chunks_on_cuda(_, _)
_prepare_chunks_on_cuda(s, chunk_ids) ==
    IF chunk_ids = << >> \/ s.raised # "none" THEN s
    ELSE
    LET chunk_id == Head(chunk_ids)
    IN  IF _chunk_in_cuda(s, chunk_id) THEN _prepare_chunks_on_cuda(s, Tail(chunk_ids))
        ELSE
        LET s1 == IF _find_free_cuda_slot(s) = 0 - 1 THEN _evict(s) ELSE s
        IN  IF s1.raised # "none" THEN s1
            ELSE _prepare_chunks_on_cuda(_admit(s1, chunk_id), Tail(chunk_ids))

\* mutant: the chunk's own position in the table instead of its slot's offset
_id_to_cached_cuda_id_HomeOffset(s, batch) ==
    [i \in 1 .. Len(batch) |->
        IMP_chunkid_Embedding[batch[i]] * chunk_size + IMP_offsetinchunk_Embedding[batch[i]]]

\* _id_to_cached_cuda_id: CCT(chunk_id) + offset_in_chunk, per id
_id_to_cached_cuda_id(s, batch) ==
    [i \in 1 .. Len(batch) |->
        s.CCT[IMP_chunkid_Embedding[batch[i]]] + IMP_offsetinchunk_Embedding[batch[i]]]

\* mutant: an if where the while belongs
FlushLoop_Once(s) ==
    IF DOMAIN s.cached_chunk_table = {} THEN s ELSE _evict(s)

RECURSIVE FlushLoop(_)
\* while len(self.cached_chunk_table) != 0: self._evict()
FlushLoop(s) ==
    IF DOMAIN s.cached_chunk_table = {} \/ s.raised # "none" THEN s
    ELSE FlushLoop(_evict(s))

(* ---------------------------- construction ---------------------------- *)
\* mutant: the padding is added also when chunk_size divides the number of rows
PaddedRows_AlwaysPads(n, cs) == n + (cs - (n % cs))

\* the rows of the weight after the padding of __init__: mod = n % chunk_size
\* rows are left over, and if mod > 0 the constructor appends chunk_size - mod
\* rows of zeros
PaddedRows(n, cs) ==
    LET mod == n % cs
    IN  IF mod > 0 THEN n + (cs - mod) ELSE n

\* the state __init__ leaves (re = FALSE, the placeholder mapping arange), or the
\* state after __init__ and reorder (re = TRUE, the mapping reorder built).  The
\* weight handed to the constructor has every element distinct and non-zero.
Constructed(cs, n, dim, cap, chunkids, offsets, re, o) ==
    LET cn == (n + cs - 1) \div cs
    IN  /\ mgr_class = "ChunkParamMgr"
        /\ chunk_size = cs
        /\ num_embeddings = n
        /\ embedding_dim = dim
        /\ cuda_chunk_num = cap
        /\ cpu_weight = [e \in 0 .. (PaddedRows(n, cs) * dim - 1) |->
                            IF e < n * dim THEN e + 1 ELSE 0]
        /\ cuda_partial_weight = [e \in 0 .. (cap * cs * dim - 1) |-> 0]
        /\ IMP_chunkid_Embedding = chunkids
        /\ IMP_offsetinchunk_Embedding = offsets
        /\ index_mapping_table = << >>
        /\ ids_freq_mapping = None
        /\ cached_chunk_table = << >>
        /\ cached_chunk_ids = << >>
        /\ cpu_chunk_embedding = [c \in 0 .. (cn - 1) |-> 1]
        /\ chunk_id_cuda_offset = << >>
        /\ CCT = [c \in 0 .. (cn - 1) |-> Garbage]
        /\ evict_backlist = {}
        /\ num_hits_history = << >>
        /\ num_miss_history = << >>
        /\ num_write_back_history = << >>
        /\ cpu_to_cuda_numel = 0
        /\ cuda_to_cpu_numel = 0
        /\ op = o
        /\ ids = << >>
        /\ ret = [status |-> "ok", mapped_ids |-> << >>]
        /\ evict_log = << >>
        /\ evict_calls = << >>
        /\ admit_log = << >>
        /\ reordered = re

Init ==
    \E cs \in 1 .. MaxChunkSize, n \in 1 .. MaxRows,
       dim \in 1 .. MaxEmbeddingDim, cap \in 0 .. MaxCapacity :
        Constructed(cs, n, dim, cap, [i \in 0 .. (n - 1) |-> i], [i \in 0 .. (n - 1) |-> i],
                    FALSE, "__init__")

(* ------------------------------ reorder ------------------------------- *)
\* mutant: any descending list of ids, an id twice included
ArgsortDescending_NotPermutation(freq) ==
    {p \in [Ids -> Ids] :
        \A i, j \in Ids : i < j => freq[p[i]] >= freq[p[j]]}

\* the results argsort(descending=True) may give for a frequency list: every
\* permutation of the ids along which the frequency never increases (the sort is
\* not stable: equal frequencies come out in any order)
ArgsortDescending(freq) ==
    {p \in [Ids -> Ids] :
        /\ \A i, j \in Ids : i # j => p[i] # p[j]
        /\ \A i, j \in Ids : i < j => freq[p[i]] >= freq[p[j]]}

\* divs and mods of sorted_idx, copied into the two mapping tables
reorder(sorted_idx) ==
    /\ IMP_chunkid_Embedding' = [i \in Ids |-> sorted_idx[i] \div chunk_size]
    /\ IMP_offsetinchunk_Embedding' = [i \in Ids |-> sorted_idx[i] % chunk_size]
    /\ index_mapping_table' = index_mapping_table
    /\ reordered' = TRUE
    /\ op' = "reorder"
    /\ UNCHANGED <<cfg_vars, mgr_vars, hist_vars, ids, ret, evict_log, admit_log, evict_calls>>

\* mutant: reorder(None) at any time, also over a mapping already built
ReorderIdentity_Anytime ==
    /\ mgr_class = "ChunkParamMgr"
    /\ ids_freq_mapping' = None
    /\ reorder([i \in Ids |-> i])

\* reorder(None): sorted_idx = arange(num_embeddings).  Executed once, before training.
ReorderIdentity ==
    /\ mgr_class = "ChunkParamMgr"
    /\ op = "__init__"
    /\ ids_freq_mapping' = None
    /\ reorder([i \in Ids |-> i])

\* reorder(ids_freq_mapping), the frequencies drawn from 0 .. maxfreq
ReorderByFrequencyUpTo(maxfreq) ==
    /\ mgr_class = "ChunkParamMgr"
    /\ op = "__init__"
    /\ \E freq \in [Ids -> 0 .. maxfreq] :
         /\ ids_freq_mapping' = freq
         /\ \E sorted_idx \in ArgsortDescending(freq) : reorder(sorted_idx)

ReorderByFrequency == ReorderByFrequencyUpTo(MaxFreq)

(* ---------------------------- prepare_ids ----------------------------- *)
Batches(n, maxlen) == UNION {[1 .. k -> 0 .. (n - 1)] : k \in 0 .. maxlen}

Outcome(status, mapped_ids) == [status |-> status, mapped_ids |-> mapped_ids]

\* mutant: only the first id of the batch is looked up
ChunkIdSet_FirstOnly(batch) ==
    IF Len(batch) = 0 THEN {} ELSE {IMP_chunkid_Embedding[batch[1]]}

\* W: torch.unique(IMP_chunkid_Embedding(ids))
ChunkIdSet(batch) == {IMP_chunkid_Embedding[batch[i]] : i \in 1 .. Len(batch)}

\* mutant: the assert lets one chunk too many through
AssertCapacity_OffByOne(chunk_id_set) == Cardinality(chunk_id_set) <= cuda_chunk_num + 1

\* the assert of prepare_ids: len(chunk_id_set) <= self.cuda_chunk_num
AssertCapacity(chunk_id_set) == Cardinality(chunk_id_set) <= cuda_chunk_num

\* mutant: the residency flags are not consulted, every chunk counts as a miss
cpu_chunk_id_list_AllMiss(s, chunk_id_set) == SortedSeq(chunk_id_set)

\* cpu_chunk_id_list: the chunks of chunk_id_set whose cpu_chunk_embedding flag is
\* non-zero, in the order of chunk_id_set (ascending)
cpu_chunk_id_list(s, chunk_id_set) ==
    SortedSeq({c \in chunk_id_set : s.cpu_chunk_embedding[c] # 0})

prepare_ids(batch) ==
    LET chunk_id_set == ChunkIdSet(batch)
    IN  /\ op' = "prepare_ids"
        /\ ids' = batch
        /\ ids_freq_mapping' = None
        /\ UNCHANGED <<cfg_vars, imp_vars>>
        /\ IF \E i \in 1 .. Len(batch) : batch[i] \notin Ids
           THEN \* IMP_chunkid_Embedding has num_embeddings rows: the lookup of the
                \* batch is out of range, before anything is written
                /\ ret' = Outcome("IndexError", << >>)
                /\ evict_log' = << >>
                /\ evict_calls' = << >>
                /\ admit_log' = << >>
                /\ UNCHANGED <<mgr_vars, hist_vars>>
           ELSE
           IF ~AssertCapacity(chunk_id_set)
           THEN \* the assert fails before anything is written
                /\ ret' = Outcome("AssertionError", << >>)
                /\ evict_log' = << >>
                /\ evict_calls' = << >>
                /\ admit_log' = << >>
                /\ UNCHANGED <<mgr_vars, hist_vars>>
           ELSE
           IF \E c \in chunk_id_set : c >= chunk_num
           THEN \* cpu_chunk_embedding has chunk_num rows: the lookup is out of range
                /\ ret' = Outcome("IndexError", << >>)
                /\ Commit([Self EXCEPT !.evict_backlist = chunk_id_set])
                /\ UNCHANGED hist_vars
           ELSE
           LET s0 == [Self EXCEPT !.evict_backlist = chunk_id_set]
               misses == cpu_chunk_id_list(s0, chunk_id_set)
               s1 == _prepare_chunks_on_cuda(s0, misses)
               s2 == [s1 EXCEPT !.evict_backlist = {}]
           IN  /\ num_hits_history' = Append(num_hits_history,
                      Cardinality(chunk_id_set) - Len(misses))
               /\ num_miss_history' = Append(num_miss_history, Len(misses))
               /\ num_write_back_history' = Append(num_write_back_history, 0)
               /\ IF s1.raised # "none"
                  THEN /\ ret' = Outcome(s1.raised, << >>)
                       /\ Commit(s1)
                  ELSE /\ ret' = Outcome("ok", _id_to_cached_cuda_id(s2, batch))
                       /\ Commit(s2)

PrepareIds ==
    /\ mgr_class = "ChunkParamMgr"
    /\ Len(num_hits_history) < MaxCalls
    /\ \E batch \in Batches(num_embeddings, MaxBatchLen) : prepare_ids(batch)

\* batches that may also hold the id below the table and the id past its end
AnyBatches(n, maxlen) == UNION {[1 .. k -> (0 - 1) .. n] : k \in 0 .. maxlen}

\* prepare_ids of a ChunkParamMgr on any such batch
PrepareAnyIds ==
    /\ mgr_class = "ChunkParamMgr"
    /\ Len(num_hits_history) < MaxCalls
    /\ \E batch \in AnyBatches(num_embeddings, InputBatchLen) : prepare_ids(batch)

(* ------------------------------- flush -------------------------------- *)
flush ==
    LET s1 == FlushLoop(Self)
    IN  /\ op' = "flush"
        /\ ids' = << >>
        /\ ids_freq_mapping' = None
        /\ ret' = Outcome(IF s1.raised # "none" THEN s1.raised ELSE "ok", << >>)
        /\ Commit(s1)
        /\ UNCHANGED <<cfg_vars, imp_vars, hist_vars>>

Flush ==
    /\ mgr_class = "ChunkParamMgr"
    /\ flush

(* ------------------------- _reset_comm_stats -------------------------- *)
_reset_comm_stats ==
    /\ cpu_to_cuda_numel' = 0
    /\ cuda_to_cpu_numel' = 0
    /\ op' = "_reset_comm_stats"
    /\ ids' = << >>
    /\ ids_freq_mapping' = None
    /\ ret' = Outcome("ok", << >>)
    /\ evict_log' = << >>
    /\ evict_calls' = << >>
    /\ admit_log' = << >>
    /\ UNCHANGED <<cfg_vars, imp_vars, hist_vars, cpu_weight, cuda_partial_weight,
                   cached_chunk_table, cached_chunk_ids, cpu_chunk_embedding,
                   chunk_id_cuda_offset, CCT, evict_backlist>>

ResetCommStats ==
    /\ mgr_class = "ChunkParamMgr"
    /\ _reset_comm_stats

(* ------------------ in-place update of resident rows ------------------ *)
\* the elements of cuda_partial_weight that lie in an occupied slot
ResidentElements ==
    {e \in DOMAIN cuda_partial_weight :
        \E slot_idx \in DOMAIN cached_chunk_table :
            /\ e >= cached_chunk_table[slot_idx].offset * embedding_dim
            /\ e < (cached_chunk_table[slot_idx].offset + chunk_size) * embedding_dim}

\* what a training step writes over the value v >= 0 of a resident element: a
\* negative value no other element holds
Stepped(v) == 0 - v - 1

\* the values training steps have written that either tier still holds
SteppedValues ==
    {cpu_weight[e] : e \in {x \in DOMAIN cpu_weight : cpu_weight[x] < 0}}
    \cup {cuda_partial_weight[e] :
              e \in {x \in DOMAIN cuda_partial_weight : cuda_partial_weight[x] < 0}}

\* the optimizer (an external collaborator) steps one element of a resident row
UpdateResident ==
    /\ mgr_class = "ChunkParamMgr"
    /\ Cardinality(SteppedValues) < MaxUpdates
    /\ \E e \in ResidentElements :
         /\ cuda_partial_weight[e] >= 0
         /\ cuda_partial_weight' = [cuda_partial_weight EXCEPT ![e] = Stepped(cuda_partial_weight[e])]
    /\ op' = "update"
    /\ ids' = << >>
    /\ ids_freq_mapping' = None
    /\ ret' = Outcome("ok", << >>)
    /\ evict_log' = << >>
    /\ evict_calls' = << >>
    /\ admit_log' = << >>
    /\ UNCHANGED <<cfg_vars, imp_vars, hist_vars, cpu_weight,
                   cached_chunk_table, cached_chunk_ids, cpu_chunk_embedding,
                   chunk_id_cuda_offset, CCT, evict_backlist,
                   cpu_to_cuda_numel, cuda_to_cpu_numel>>

(* --------------------------- specifications --------------------------- *)
Next ==
    \/ ReorderIdentity
    \/ ReorderByFrequency
    \/ PrepareIds
    \/ Flush
    \/ ResetCommStats
    \/ UpdateResident

Spec == Init /\ [][Next]_vars

\* chunk_size = 2, capacity = 2, 8 rows, identity ordering, empty cache
ScenarioInit ==
    Constructed(2, 8, 1, 2, [i \in 0 .. 7 |-> i \div 2], [i \in 0 .. 7 |-> i % 2],
                TRUE, "reorder")

ScenarioPrepareIds ==
    /\ Len(num_hits_history) < ScenarioCalls
    /\ \E batch \in Batches(num_embeddings, ScenarioBatchLen) : prepare_ids(batch)

ScenarioNext ==
    \/ ScenarioPrepareIds
    \/ Flush

ScenarioSpec == ScenarioInit /\ [][ScenarioNext]_vars

\* a ChunkParamMgr on which _reset_comm_stats is never called
NoResetNext ==
    \/ ReorderIdentity
    \/ ReorderByFrequency
    \/ PrepareIds
    \/ Flush
    \/ UpdateResident

NoResetSpec == Init /\ [][NoResetNext]_vars

(* ------------------------- ChunkCUDAWeightMgr -------------------------- *)
\* python list indexing list[i]: i in [-len, len), a negative i counts from the end
ListIndexOk(list, i) == i >= 0 - Len(list) /\ i < Len(list)
ListGet(list, i) == IF i >= 0 THEN list[i + 1] ELSE list[Len(list) + i + 1]

\* mutant: quotient and remainder change places
divmod_Swapped(a, b) == <<a % b, a \div b>>

\* python's divmod
divmod(a, b) == <<a \div b, a % b>>

\* the state ChunkCUDAWeightMgr.__init__ leaves.  cuda_partial_weight is
\* torch.empty: its elements are whatever the memory held (Garbage) until an
\* admission writes them.  The fields only ChunkParamMgr has are empty.
CW_Constructed(cs, n, dim, cap) ==
    LET cn == (n + cs - 1) \div cs
    IN  /\ mgr_class = "ChunkCUDAWeightMgr"
        /\ chunk_size = cs
        /\ num_embeddings = n
        /\ embedding_dim = dim
        /\ cuda_chunk_num = cap
        /\ cpu_weight = [e \in 0 .. (PaddedRows(n, cs) * dim - 1) |->
                            IF e < n * dim THEN e + 1 ELSE 0]
        /\ cuda_partial_weight = [e \in 0 .. (cap * cs * dim - 1) |-> Garbage]
        /\ IMP_chunkid_Embedding = << >>
        /\ IMP_offsetinchunk_Embedding = << >>
        /\ index_mapping_table = << >>
        /\ ids_freq_mapping = None
        /\ cached_chunk_table = << >>
        /\ cached_chunk_ids = << >>
        /\ cpu_chunk_embedding = << >>
        /\ chunk_id_cuda_offset = << >>
        /\ CCT = << >>
        /\ evict_backlist = {}
        /\ num_hits_history = << >>
        /\ num_miss_history = << >>
        /\ num_write_back_history = << >>
        /\ cpu_to_cuda_numel = 0
        /\ cuda_to_cpu_numel = 0
        /\ op = "__init__"
        /\ ids = << >>
        /\ ret = [status |-> "ok", mapped_ids |-> << >>]
        /\ evict_log = << >>
        /\ evict_calls = << >>
        /\ admit_log = << >>
        /\ reordered = FALSE

CWInit ==
    \E cs \in 1 .. MaxChunkSize, n \in 1 .. MaxRows,
       dim \in 1 .. MaxEmbeddingDim, cap \in 0 .. MaxCapacity :
        CW_Constructed(cs, n, dim, cap)

\* np.argsort(freq): every permutation of the ids along which the frequency
\* never decreases (the default sort is not stable)
ArgsortAscending(freq) ==
    {p \in [Ids -> Ids] :
        /\ \A i, j \in Ids : i # j => p[i] # p[j]
        /\ \A i, j \in Ids : i < j => freq[p[i]] <= freq[p[j]]}

\* np.flipud of a 1-d array
flipud(a) == [i \in Ids |-> a[num_embeddings - 1 - i]]

\* ChunkCUDAWeightMgr.reorder: one divmod per id, appended to the list.  A
\* frequency list (never empty) is true in the conditional of the loop, None is
\* not; sorted_idx is read only when it is.
CW_reorder(freq, sorted_idx) ==
    /\ index_mapping_table' = index_mapping_table \o
           [k \in 1 .. num_embeddings |->
               divmod(IF ~IsNone(freq) THEN sorted_idx[k - 1] ELSE k - 1, chunk_size)]
    /\ ids_freq_mapping' = freq
    /\ reordered' = TRUE
    /\ op' = "reorder"
    /\ UNCHANGED <<cfg_vars, mgr_vars, hist_vars, ids, ret, evict_log, admit_log, evict_calls,
                   IMP_chunkid_Embedding, IMP_offsetinchunk_Embedding>>

\* reorder(None), called once after construction (FreqAwareEmbeddingBag._preprocess)
CWReorderIdentity ==
    /\ mgr_class = "ChunkCUDAWeightMgr"
    /\ op = "__init__"
    /\ CW_reorder(None, << >>)

\* reorder(ids_freq_mapping), the frequencies drawn from 0 .. maxfreq
CWReorderByFrequencyUpTo(maxfreq) ==
    /\ mgr_class = "ChunkCUDAWeightMgr"
    /\ op = "__init__"
    /\ \E freq \in [Ids -> 0 .. maxfreq] :
         \E ascending \in ArgsortAscending(freq) : CW_reorder(freq, flipud(ascending))

CWReorderByFrequency == CWReorderByFrequencyUpTo(MaxFreq)

\* ChunkCUDAWeightMgr._chunk_in_cuda
CW_chunk_in_cuda(s, chunk_id) ==
    \E slot_idx \in DOMAIN s.cached_chunk_table :
        s.cached_chunk_table[slot_idx].chunk_id = chunk_id

\* ChunkCUDAWeightMgr._find_free_cuda_slot
CW_find_free_cuda_slot(s) ==
    LET free == {slot_idx \in 0 .. (cuda_chunk_num - 1) :
                     slot_idx \notin DOMAIN s.cached_chunk_table}
    IN  IF free = {} THEN 0 - 1 ELSE Min(free)

\* torch.narrow(t, 0, start, length) of a 1-d tensor of the given size: the first
\* element of the view (a negative start counts from the end), or -1 where
\* narrow raises because the view would leave the tensor
Narrow(size, start, length) ==
    LET wrapped == IF start < 0 THEN start + size ELSE start
    IN  IF wrapped < 0 \/ wrapped + length > size THEN 0 - 1 ELSE wrapped

\* ChunkCUDAWeightMgr._evict: the chunk with the smallest id that is not in
\* evict_backlist is copied from cuda_partial_weight at min_offset (the offset in
\* rows, used as it is) and popped; nothing is returned
CW_evict(s) ==
    LET cand == {slot_id \in DOMAIN s.cached_chunk_table :
                    /\ s.cached_chunk_table[slot_id].chunk_id < 2 * chunk_num
                    /\ s.cached_chunk_table[slot_id].chunk_id \notin s.evict_backlist}
        done ==
        IF cand = {} THEN [s EXCEPT !.raised = "RuntimeError"]
        ELSE
        LET min_chunk_id == Min({s.cached_chunk_table[x].chunk_id : x \in cand})
            min_slot_id == Min({x \in cand : s.cached_chunk_table[x].chunk_id = min_chunk_id})
            min_offset == s.cached_chunk_table[min_slot_id].offset
            numel == chunk_size * embedding_dim
            first == Narrow(cuda_chunk_num * numel, min_offset, numel)
        IN  IF first = 0 - 1 THEN [s EXCEPT !.raised = "RuntimeError"]
            ELSE
            [s EXCEPT
               !.cpu_weight = CopyRegion(s.cpu_weight, min_chunk_id * numel,
                                         s.cuda_partial_weight, first, numel),
               !.cached_chunk_table = DictPop(s.cached_chunk_table, min_slot_id),
               !.chunk_id_cuda_offset = DictPop(s.chunk_id_cuda_offset, min_chunk_id),
               !.cuda_to_cpu_numel = s.cuda_to_cpu_numel + numel,
               !.evict_log = Append(s.evict_log, min_chunk_id)]
    IN  Observed(s, done)

\* ChunkCUDAWeightMgr._admit: slot_id is the result of _find_free_cuda_slot; when
\* that is -1 the method calls _evict() and goes on with slot_id = -1
CW_admit(s, chunk_id) ==
    LET slot_id == CW_find_free_cuda_slot(s)
        s1 == IF slot_id = 0 - 1 THEN CW_evict(s) ELSE s
    IN  IF s1.raised # "none" THEN s1
        ELSE
        LET slot_offset == slot_id * chunk_size
            numel == chunk_size * embedding_dim
            first == Narrow(cuda_chunk_num * numel, slot_offset, numel)
        IN  IF first = 0 - 1 THEN [s1 EXCEPT !.raised = "RuntimeError"]
            ELSE
            [s1 EXCEPT
               !.cuda_partial_weight = CopyRegion(s1.cuda_partial_weight, first,
                                                  s1.cpu_weight, chunk_id * numel, numel),
               !.cached_chunk_table = DictSet(s1.cached_chunk_table, slot_id,
                                              [chunk_id |-> chunk_id, offset |-> slot_offset]),
               !.chunk_id_cuda_offset = DictSet(s1.chunk_id_cuda_offset, chunk_id, slot_offset),
               !.cpu_to_cuda_numel = s1.cpu_to_cuda_numel + numel,
               !.admit_log = Append(s1.admit_log, chunk_id)]

RECURSIVE CW_prepare_cuda_chunks(_, _)
\* ChunkCUDAWeightMgr._prepare_cuda_chunks
CW_prepare_cuda_chunks(s, chunk_ids) ==
    IF chunk_ids = << >> \/ s.raised # "none" THEN s
    ELSE
    LET chunk_id == Head(chunk_ids)
    IN  IF CW_chunk_in_cuda(s, chunk_id) THEN CW_prepare_cuda_chunks(s, Tail(chunk_ids))
        ELSE
        LET s1 == IF CW_find_free_cuda_slot(s) = 0 - 1 THEN CW_evict(s) ELSE s
        IN  IF s1.raised # "none" THEN s1
            ELSE CW_prepare_cuda_chunks(CW_admit(s1, chunk_id), Tail(chunk_ids))

\* the chunk ids the first loop of prepare_ids collects from index_mapping_table
CW_ChunkIdSet(batch) ==
    {ListGet(index_mapping_table, batch[i])[1] : i \in 1 .. Len(batch)}

\* ChunkCUDAWeightMgr._id_to_cached_cuda_id, per id of the batch
CW_id_to_cached_cuda_id(s, batch) ==
    [i \in 1 .. Len(batch) |->
        s.chunk_id_cuda_offset[ListGet(index_mapping_table, batch[i])[1]]
            + ListGet(index_mapping_table, batch[i])[2]]

\* ChunkCUDAWeightMgr.prepare_ids.  The set of chunk ids is walked in ascending
\* order (a python set of small integers).  There is no check of the size of the
\* set, and the statement after _prepare_cuda_chunks only names evict_backlist.
CW_prepare_ids(batch) ==
    /\ op' = "prepare_ids"
    /\ ids' = batch
    /\ ids_freq_mapping' = None
    /\ UNCHANGED <<cfg_vars, imp_vars, hist_vars>>
    /\ IF \E i \in 1 .. Len(batch) : ~ListIndexOk(index_mapping_table, batch[i])
       THEN \* list index out of range, in the first loop
            /\ ret' = Outcome("IndexError", << >>)
            /\ evict_log' = << >>
            /\ evict_calls' = << >>
            /\ admit_log' = << >>
            /\ UNCHANGED mgr_vars
       ELSE
       LET chunk_id_set == CW_ChunkIdSet(batch)
           s0 == [Self EXCEPT !.evict_backlist = chunk_id_set]
           cpu_chunk_ids == SortedSeq({c \in chunk_id_set : ~CW_chunk_in_cuda(s0, c)})
           s1 == CW_prepare_cuda_chunks(s0, cpu_chunk_ids)
       IN  /\ ret' = IF s1.raised # "none" THEN Outcome(s1.raised, << >>)
                     ELSE Outcome("ok", CW_id_to_cached_cuda_id(s1, batch))
           /\ Commit(s1)

CWPrepareIds ==
    /\ mgr_class = "ChunkCUDAWeightMgr"
    /\ cpu_to_cuda_numel < MaxAdmissions * chunk_size * embedding_dim
    /\ \E batch \in Batches(num_embeddings, MaxBatchLen) : CW_prepare_ids(batch)

\* prepare_ids of a ChunkCUDAWeightMgr on a batch that may hold ids outside the table
CWPrepareAnyIds ==
    /\ mgr_class = "ChunkCUDAWeightMgr"
    /\ cpu_to_cuda_numel < MaxAdmissions * chunk_size * embedding_dim
    /\ \E batch \in AnyBatches(num_embeddings, InputBatchLen) : CW_prepare_ids(batch)

RECURSIVE CW_FlushLoop(_)
\* while len(self.cached_chunk_table) != 0: self._evict()
CW_FlushLoop(s) ==
    IF DOMAIN s.cached_chunk_table = {} \/ s.raised # "none" THEN s
    ELSE CW_FlushLoop(CW_evict(s))

\* ChunkCUDAWeightMgr.flush
CW_flush ==
    LET s1 == CW_FlushLoop(Self)
    IN  /\ op' = "flush"
        /\ ids' = << >>
        /\ ids_freq_mapping' = None
        /\ ret' = Outcome(IF s1.raised # "none" THEN s1.raised ELSE "ok", << >>)
        /\ Commit(s1)
        /\ UNCHANGED <<cfg_vars, imp_vars, hist_vars>>

CWFlush ==
    /\ mgr_class = "ChunkCUDAWeightMgr"
    /\ CW_flush

\* a ChunkCUDAWeightMgr: construction, reorder, prepare_ids and flush
CWNext ==
    \/ CWReorderIdentity
    \/ CWReorderByFrequency
    \/ CWPrepareIds
    \/ CWFlush

CWSpec == CWInit /\ [][CWNext]_vars

\* an object of either class under the calls of its class
AllInit == Init \/ CWInit

AllNext == Next \/ CWNext

AllSpec == AllInit /\ [][AllNext]_vars

\* rows of more than one element: an object of either class with embedding_dim
\* up to RegionMaxDim and at least one slot, under reorder(None), prepare_ids
\* and flush
RegionInit ==
    \E cs \in 1 .. MaxChunkSize, n \in 1 .. MaxRows,
       dim \in 1 .. RegionMaxDim, cap \in 1 .. MaxCapacity :
        \/ Constructed(cs, n, dim, cap, [i \in 0 .. (n - 1) |-> i], [i \in 0 .. (n - 1) |-> i],
                       FALSE, "__init__")
        \/ CW_Constructed(cs, n, dim, cap)

RegionNext ==
    \/ ReorderIdentity
    \/ PrepareIds
    \/ Flush
    \/ CWReorderIdentity
    \/ CWPrepareIds
    \/ CWFlush

RegionSpec == RegionInit /\ [][RegionNext]_vars

\* reorder alone, as a function of its input, for both classes
ReorderInit == Init \/ CWInit

ReorderNext ==
    \/ ReorderIdentity
    \/ ReorderByFrequencyUpTo(ReorderMaxFreq)
    \/ CWReorderIdentity
    \/ CWReorderByFrequencyUpTo(ReorderMaxFreq)

ReorderSpec == ReorderInit /\ [][ReorderNext]_vars

\* both classes under batches that may hold ids outside the table
InputInit == Init \/ CWInit

InputNext ==
    \/ ReorderIdentity
    \/ CWReorderIdentity
    \/ PrepareAnyIds
    \/ CWPrepareAnyIds

InputSpec == InputInit /\ [][InputNext]_vars

\* _admit(chunk_id) called on its own, as _prepare_chunks_on_cuda calls it: for
\* a chunk of the table that is not resident
Admit ==
    /\ mgr_class = "ChunkParamMgr"
    /\ cpu_to_cuda_numel < MaxAdmitCalls * chunk_size * embedding_dim
    /\ \E chunk_id \in 0 .. (chunk_num - 1) :
         /\ ~_chunk_in_cuda(Self, chunk_id)
         /\ LET s1 == _admit(Self, chunk_id)
            IN  /\ op' = "_admit"
                /\ ids' = <<chunk_id>>
                /\ ids_freq_mapping' = None
                /\ ret' = Outcome(IF s1.raised # "none" THEN s1.raised ELSE "ok", << >>)
                /\ Commit(s1)
                /\ UNCHANGED <<cfg_vars, imp_vars, hist_vars>>

\* ChunkCUDAWeightMgr._admit(chunk_id) called on its own
CWAdmit ==
    /\ mgr_class = "ChunkCUDAWeightMgr"
    /\ cpu_to_cuda_numel < MaxAdmitCalls * chunk_size * embedding_dim
    /\ \E chunk_id \in 0 .. (chunk_num - 1) :
         /\ ~CW_chunk_in_cuda(Self, chunk_id)
         /\ LET s1 == CW_admit(Self, chunk_id)
            IN  /\ op' = "_admit"
                /\ ids' = <<chunk_id>>
                /\ ids_freq_mapping' = None
                /\ ret' = Outcome(IF s1.raised # "none" THEN s1.raised ELSE "ok", << >>)
                /\ Commit(s1)
                /\ UNCHANGED <<cfg_vars, imp_vars, hist_vars>>

\* _evict() called on its own
Evict ==
    /\ mgr_class = "ChunkParamMgr"
    /\ LET s1 == _evict(Self)
       IN  /\ op' = "_evict"
           /\ ids' = << >>
           /\ ids_freq_mapping' = None
           /\ ret' = IF s1.raised # "none" THEN Outcome(s1.raised, << >>)
                     ELSE Outcome("ok", <<s1.slot>>)
           /\ Commit(s1)
           /\ UNCHANGED <<cfg_vars, imp_vars, hist_vars>>

\* _find_free_cuda_slot() called on its own; the observer ret holds its result
FindFreeCudaSlot ==
    /\ mgr_class = "ChunkParamMgr"
    /\ op' = "_find_free_cuda_slot"
    /\ ids' = << >>
    /\ ids_freq_mapping' = None
    /\ ret' = Outcome("ok", <<_find_free_cuda_slot(Self)>>)
    /\ evict_log' = << >>
    /\ evict_calls' = << >>
    /\ admit_log' = << >>
    /\ UNCHANGED <<cfg_vars, imp_vars, mgr_vars, hist_vars>>

\* the private methods as functions of the state: an object of either class
\* under direct calls of _admit, _evict and _find_free_cuda_slot
AdmitInit == Init \/ CWInit

AdmitNext ==
    \/ Admit
    \/ CWAdmit
    \/ Evict
    \/ FindFreeCudaSlot

AdmitSpec == AdmitInit /\ [][AdmitNext]_vars

(* ------------------------ observations on a state --------------------- *)
\* the chunks the slot table holds
Resident == {cached_chunk_table[slot_idx].chunk_id : slot_idx \in DOMAIN cached_chunk_table}

\* the slot that holds a resident chunk
SlotOf(chunk_id) ==
    CHOOSE slot_idx \in DOMAIN cached_chunk_table :
        cached_chunk_table[slot_idx].chunk_id = chunk_id

\* the working set of the last prepare_ids call
W == ChunkIdSet(ids)

\* the last call was a prepare_ids that returned addresses
Succeeded == op = "prepare_ids" /\ ret.status = "ok"

Last(h) == h[Len(h)]

SeqToSet(q) == {q[k] : k \in 1 .. Len(q)}

(* ------------------------------- claims -------------------------------- *)
\* C1: every address a successful prepare_ids returns is slot_id * chunk_size of
\* the slot that holds the id's chunk in the slot table when the call returns,
\* plus the id's offset in its chunk.
C1_AddressIsSlotOffsetPlusOffset ==
    Succeeded =>
        \A i \in 1 .. Len(ids) :
            LET chunk_id == IMP_chunkid_Embedding[ids[i]]
            IN  /\ chunk_id \in Resident
                /\ ret.mapped_ids[i] =
                       SlotOf(chunk_id) * chunk_size + IMP_offsetinchunk_Embedding[ids[i]]

\* a successful call under a frequency ordering whose batch spans two chunks, one
\* of them admitted over an evicted chunk into a slot other than its own number
C1_Witness ==
    /\ Succeeded
    /\ reordered
    /\ Len(evict_log) > 0
    /\ Cardinality(W) = 2
    /\ \E i \in 1 .. Len(ids) :
         /\ SlotOf(IMP_chunkid_Embedding[ids[i]]) # IMP_chunkid_Embedding[ids[i]]
         /\ IMP_chunkid_Embedding[ids[i]] # ids[i] \div chunk_size

\* C2: after every successful prepare_ids at most cuda_chunk_num chunks are
\* resident and every chunk of the batch's working set is resident.
C2_ResidentBoundAndWorkingSet ==
    Succeeded =>
        /\ Cardinality(DOMAIN cached_chunk_table) <= cuda_chunk_num
        /\ Cardinality(Resident) <= cuda_chunk_num
        /\ W \subseteq Resident

\* a second successful call whose working set is as large as the capacity and
\* that had to evict to make it resident
C2_Witness ==
    /\ Succeeded
    /\ cuda_chunk_num = 2
    /\ Cardinality(W) = cuda_chunk_num
    /\ Cardinality(Resident) = cuda_chunk_num
    /\ Len(num_hits_history) = 2
    /\ Len(evict_log) > 0

\* C3: a prepare_ids call never writes back a chunk of its own working set: the
\* chunks of W resident at the start and the chunks it admits are resident when
\* it returns.
C3_NoSelfEviction ==
    op = "prepare_ids" =>
        /\ \A k \in 1 .. Len(evict_log) : evict_log[k] \notin W
        /\ SeqToSet(admit_log) \subseteq Resident
        /\ ret.status = "ok" => W \subseteq Resident

\* a call that hit one resident chunk and evicted the other to admit a miss
C3_Witness ==
    /\ Succeeded
    /\ Len(evict_log) = 1
    /\ Last(num_hits_history) = 1
    /\ Last(num_miss_history) = 1
    /\ evict_log[1] > Min(W)

\* C4: a batch whose working set exceeds the capacity fails on the assert
\* (CapacityExceeded) before any admission, and the failed call leaves the slot
\* table, both tiers, the backlist, the histories and the counters as they were.
C4_CapacityExceededChangesNothing ==
    [][(op' = "prepare_ids" /\ Cardinality(ChunkIdSet(ids')) > cuda_chunk_num) =>
          /\ ret'.status = "AssertionError"
          /\ admit_log' = << >>
          /\ evict_log' = << >>
          /\ UNCHANGED <<mgr_vars, hist_vars>>]_vars

\* a batch of capacity + 1 chunks refused while a chunk is resident
C4_Witness ==
    /\ op = "prepare_ids"
    /\ ret.status = "AssertionError"
    /\ reordered
    /\ cuda_chunk_num >= 1
    /\ Cardinality(W) = cuda_chunk_num + 1
    /\ Resident # {}
    /\ Len(num_hits_history) = 1

\* C5: on a manager whose mapping reorder built, a batch whose working set has at
\* most cuda_chunk_num chunks succeeds, resident or not, and _evict never raises
\* RuntimeError('Can not evict a chunk').
C5_BatchWithinCapacitySucceeds ==
    /\ reordered => ret.status # "RuntimeError"
    /\ (reordered /\ op = "prepare_ids" /\ Cardinality(W) <= cuda_chunk_num) =>
           ret.status = "ok"

\* a batch of capacity size, none of it resident, admitted into a full cache
C5_Witness ==
    /\ Succeeded
    /\ Cardinality(W) = cuda_chunk_num
    /\ Len(evict_log) = 2
    /\ Last(num_miss_history) = 2

\* C6: a successful prepare_ids repeated at once with the same batch returns the
\* same addresses, records |W| hits and no miss, and admits and evicts nothing.
C6_RepeatedBatchIdempotent ==
    [][(Succeeded /\ op' = "prepare_ids" /\ ids' = ids) =>
          /\ ret' = ret
          /\ Last(num_hits_history') = Cardinality(W)
          /\ Last(num_miss_history') = 0
          /\ admit_log' = << >>
          /\ evict_log' = << >>
          /\ cached_chunk_table' = cached_chunk_table]_vars

\* a second call that hit every chunk the first call had missed
C6_Witness ==
    /\ Succeeded
    /\ Len(num_hits_history) = 2
    /\ Cardinality(W) = 2
    /\ Cardinality(Resident) = 2
    /\ num_miss_history = << 2, 0 >>
    /\ num_hits_history = << 0, 2 >>
    /\ Len(ids) = 2

\* the value of element e of the padded weight: the fast-tier copy while its chunk
\* is resident, the host copy otherwise
CurrentValue(e) ==
    LET numel == chunk_size * embedding_dim
        chunk_id == e \div numel
    IN  IF chunk_id \in Resident
        THEN cuda_partial_weight[cached_chunk_table[SlotOf(chunk_id)].offset * embedding_dim
                                 + (e % numel)]
        ELSE cpu_weight[e]

\* the element of the padded weight that dimension d of row id is
ElementOf(id, d) ==
    (IMP_chunkid_Embedding[id] * chunk_size + IMP_offsetinchunk_Embedding[id]) * embedding_dim + d

\* C7: prepare_ids and flush change the value of no row (only a training step
\* does), and the row read through a returned address is the row's value, also
\* after its chunk was written back and admitted again.
C7_DataPreserved ==
    [][op' \in {"prepare_ids", "flush"} =>
          /\ \A e \in DOMAIN cpu_weight : CurrentValue(e)' = CurrentValue(e)
          /\ (reordered /\ Succeeded') =>
                \A i \in 1 .. Len(ids'), d \in 0 .. (embedding_dim - 1) :
                    cuda_partial_weight'[ret'.mapped_ids[i] * embedding_dim + d]
                        = CurrentValue(ElementOf(ids'[i], d))]_vars

\* a row stepped while resident, written back, and read again through the address
\* of a later admission
C7_Witness ==
    /\ Succeeded
    /\ reordered
    /\ \E i \in 1 .. Len(ids) :
         /\ IMP_chunkid_Embedding[ids[i]] \in SeqToSet(admit_log)
         /\ cuda_partial_weight[ret.mapped_ids[i] * embedding_dim] < 0
         /\ cpu_weight[ElementOf(ids[i], 0)] = cuda_partial_weight[ret.mapped_ids[i] * embedding_dim]

C9_WriteBacksCounted ==
    [][op' \in {"prepare_ids", "flush"} =>
          SumSeq(num_write_back_history') =
              SumSeq(num_write_back_history) + Len(evict_log')]_vars

\* C10: chunk_size 2, capacity 2, 8 rows, identity ordering, empty cache:
\* prepare_ids([0,1]) records miss 1, hit 0 and makes chunk 0 resident;
\* prepare_ids([2,3]) records miss 1 and leaves {0,1} resident; prepare_ids([4,5])
\* records miss 1, evicts one of {0,1}, makes chunk 2 resident, 2 chunks resident.
C10_AfterFirst ==
    /\ Succeeded
    /\ ids = << 0, 1 >>
    /\ num_miss_history = << 1 >>
    /\ num_hits_history = << 0 >>
    /\ Resident = {0}

C10_AfterSecond ==
    /\ Succeeded
    /\ ids = << 2, 3 >>
    /\ num_miss_history = << 1, 1 >>
    /\ num_hits_history = << 0, 0 >>
    /\ Resident = {0, 1}

C10_Scenario ==
    [][/\ (num_hits_history = << >> /\ Resident = {}
             /\ op' = "prepare_ids" /\ ids' = << 0, 1 >>) => C10_AfterFirst'
       /\ (C10_AfterFirst /\ op' = "prepare_ids" /\ ids' = << 2, 3 >>) => C10_AfterSecond'
       /\ (C10_AfterSecond /\ op' = "prepare_ids" /\ ids' = << 4, 5 >>) =>
             /\ ret'.status = "ok"
             /\ Last(num_miss_history') = 1
             /\ Len(evict_log') = 1
             /\ evict_log'[1] \in {0, 1}
             /\ 2 \in Resident'
             /\ Cardinality(Resident') = 2]_vars

\* the state the third call of the scenario leaves
C10_Witness ==
    /\ Succeeded
    /\ ids = << 4, 5 >>
    /\ num_miss_history = << 1, 1, 1 >>
    /\ num_hits_history = << 0, 0, 0 >>
    /\ evict_log = << 0 >>
    /\ Resident = {1, 2}

\* C11: for every successful prepare_ids call the hit count it records is the
\* number of chunks of its working set that were in the slot table when the call
\* started, the miss count is the number that were not, and the two add up to
\* the size of the working set - whatever admissions, evictions and flushes
\* came before.
C11_HitsAndMissesMatchResidency ==
    [][(op' = "prepare_ids" /\ ret'.status = "ok") =>
          LET chunk_id_set == ChunkIdSet(ids')
          IN  /\ Len(num_hits_history') = Len(num_hits_history) + 1
              /\ Len(num_miss_history') = Len(num_miss_history) + 1
              /\ Last(num_hits_history') = Cardinality(chunk_id_set \cap Resident)
              /\ Last(num_miss_history') = Cardinality(chunk_id_set \ Resident)
              /\ Last(num_hits_history') + Last(num_miss_history')
                     = Cardinality(chunk_id_set)]_vars

\* a second call that found one chunk of its working set resident and the other
\* not, after a first call that missed both of its chunks
C11_Witness ==
    /\ Succeeded
    /\ reordered
    /\ num_hits_history = <<0, 1>>
    /\ num_miss_history = <<2, 1>>
    /\ Len(evict_log) = 1

\* C12: in every reachable state no chunk id is in more than one slot of the
\* slot table, and the occupied slots are at most cuda_chunk_num, each one of the
\* slots 0 .. cuda_chunk_num - 1.
C12_OneSlotPerChunkWithinCapacity ==
    /\ \A slot_a, slot_b \in DOMAIN cached_chunk_table :
         cached_chunk_table[slot_a].chunk_id = cached_chunk_table[slot_b].chunk_id
             => slot_a = slot_b
    /\ Cardinality(DOMAIN cached_chunk_table) <= cuda_chunk_num
    /\ DOMAIN cached_chunk_table \subseteq 0 .. (cuda_chunk_num - 1)

\* a full table of two different chunks, one of them admitted into the slot an
\* eviction has just freed
C12_Witness ==
    /\ op = "prepare_ids"
    /\ cuda_chunk_num = 2
    /\ DOMAIN cached_chunk_table = {0, 1}
    /\ cached_chunk_table[0].chunk_id # cached_chunk_table[1].chunk_id
    /\ Len(evict_log) = 1
    /\ Len(admit_log) = 1

MappedChunk(id) ==
    IF mgr_class = "ChunkParamMgr" THEN IMP_chunkid_Embedding[id]
    ELSE ListGet(index_mapping_table, id)[1]

MappedOffset(id) ==
    IF mgr_class = "ChunkParamMgr" THEN IMP_offsetinchunk_Embedding[id]
    ELSE ListGet(index_mapping_table, id)[2]

IsCW == mgr_class = "ChunkCUDAWeightMgr"

\* C14: when prepare_ids of a ChunkCUDAWeightMgr returns, the backlist is empty.
C14_CWBacklistClearedOnReturn ==
    (IsCW /\ Succeeded) => evict_backlist = {}

\* C15: flush() of a ChunkCUDAWeightMgr after a successful prepare_ids ends
\* without error, writes back every chunk that was resident and leaves the slot
\* table empty.
C15_CWFlushAfterPrepare ==
    [][(IsCW /\ Succeeded /\ op' = "flush") =>
          /\ ret'.status = "ok"
          /\ SeqToSet(evict_log') = Resident
          /\ DOMAIN cached_chunk_table' = {}]_vars

\* C16: prepare_ids of a ChunkCUDAWeightMgr on a batch whose working set has more
\* than cuda_chunk_num chunks fails before it admits or evicts a chunk, and
\* leaves the slot table and the backlist as they were.
C16_CWCapacityExceededChangesNothing ==
    [][(IsCW /\ reordered /\ op' = "prepare_ids"
            /\ Cardinality(CW_ChunkIdSet(ids')) > cuda_chunk_num) =>
          /\ ret'.status # "ok"
          /\ admit_log' = << >>
          /\ evict_log' = << >>
          /\ UNCHANGED <<cached_chunk_table, evict_backlist>>]_vars

\* C17: prepare_ids, of either class, on a batch that holds a row id outside
\* 0 .. num_embeddings - 1 (a negative id included) fails with an error, returns
\* no address, and leaves the slot table, the host store and the counters as
\* they were.
C17_InvalidIdRefused ==
    [][(op' = "prepare_ids" /\ \E i \in 1 .. Len(ids') : ids'[i] \notin Ids) =>
          /\ ret'.status # "ok"
          /\ ret'.mapped_ids = << >>
          /\ UNCHANGED <<cached_chunk_table, cpu_weight, hist_vars,
                         cpu_to_cuda_numel, cuda_to_cpu_numel>>]_vars

\* C18: prepare_ids on a ChunkParamMgr whose index mapping reorder() has not
\* built fails with an error: it returns no address and admits no chunk.
C18_UnbuiltMappingRefused ==
    (mgr_class = "ChunkParamMgr" /\ ~reordered /\ op = "prepare_ids" /\ Len(ids) > 0) =>
        /\ ret.status # "ok"
        /\ ret.mapped_ids = << >>
        /\ admit_log = << >>

\* the ranks (from 0) a descending sort may give a row id: the number of ids
\* more frequent than it, plus up to the number of other ids as frequent as it
RanksOf(freq, id) ==
    LET higher == Cardinality({j \in Ids : freq[j] > freq[id]})
        ties == Cardinality({j \in Ids : j # id /\ freq[j] = freq[id]})
    IN  higher .. (higher + ties)

\* C19: after reorder(ids_freq_mapping), of either class, the row id with the
\* r-th highest frequency (r from 0) is mapped to chunk r div chunk_size at
\* offset r mod chunk_size; the one most frequent id to chunk 0, offset 0.
C19_FrequencyRankMapping ==
    (op = "reorder" /\ ~IsNone(ids_freq_mapping)) =>
        \A id \in Ids :
            \E r \in RanksOf(ids_freq_mapping, id) :
                /\ MappedChunk(id) = r \div chunk_size
                /\ MappedOffset(id) = r % chunk_size

\* C20: after reorder() without a frequency list, of either class, every row id
\* i is mapped to chunk i div chunk_size at offset i mod chunk_size.
C20_IdentityMapping ==
    (op = "reorder" /\ IsNone(ids_freq_mapping)) =>
        \A i \in Ids :
            /\ MappedChunk(i) = i \div chunk_size
            /\ MappedOffset(i) = i % chunk_size

\* a ChunkCUDAWeightMgr of three rows in chunks of two, reordered without
\* frequencies: the last row is alone in the padded chunk 1
C20_Witness ==
    /\ op = "reorder"
    /\ IsNone(ids_freq_mapping)
    /\ IsCW
    /\ num_embeddings = 3
    /\ chunk_size = 2
    /\ Len(index_mapping_table) = 3
    /\ MappedChunk(2) = 1
    /\ MappedOffset(2) = 0

\* h2 is h1 with entries appended
Extends(h1, h2) == Len(h2) >= Len(h1) /\ SubSeq(h2, 1, Len(h1)) = h1

\* C21: across prepare_ids and flush the transfer counters never decrease and
\* the hit, miss and write-back histories only grow; a counter goes down, or a
\* history gets shorter, only in a _reset_comm_stats call.
C21_CountersMonotone ==
    [][/\ op' \in {"prepare_ids", "flush"} =>
            /\ cpu_to_cuda_numel' >= cpu_to_cuda_numel
            /\ cuda_to_cpu_numel' >= cuda_to_cpu_numel
            /\ Extends(num_hits_history, num_hits_history')
            /\ Extends(num_miss_history, num_miss_history')
            /\ Extends(num_write_back_history, num_write_back_history')
       /\ (\/ cpu_to_cuda_numel' < cpu_to_cuda_numel
           \/ cuda_to_cpu_numel' < cuda_to_cpu_numel
           \/ ~Extends(num_hits_history, num_hits_history')
           \/ ~Extends(num_miss_history, num_miss_history')
           \/ ~Extends(num_write_back_history, num_write_back_history'))
              => op' = "_reset_comm_stats"]_vars

\* a second call that admitted and evicted while both transfer counters and the
\* histories already held the first call's counts
C21_Witness ==
    /\ Succeeded
    /\ Len(num_miss_history) = 2
    /\ num_miss_history[1] > 0
    /\ Len(evict_log) > 0
    /\ Len(admit_log) > 0
    /\ cpu_to_cuda_numel > SumSeq([k \in 1 .. Len(admit_log) |-> chunk_size * embedding_dim])
    /\ cuda_to_cpu_numel > 0

\* C22: after _reset_comm_stats every counter is zero: the hit, miss and
\* write-back counts and the amounts transferred in both directions.
C22_ResetZeroesAllCounters ==
    op = "_reset_comm_stats" =>
        /\ cpu_to_cuda_numel = 0
        /\ cuda_to_cpu_numel = 0
        /\ SumSeq(num_hits_history) = 0
        /\ SumSeq(num_miss_history) = 0
        /\ SumSeq(num_write_back_history) = 0

\* the chunks in the slot table of a snapshot
ResidentOf(snapshot) ==
    {snapshot.cached_chunk_table[slot_idx].chunk_id :
        slot_idx \in DOMAIN snapshot.cached_chunk_table}

\* C23: every _evict call that succeeds, of either class, removes exactly one
\* chunk from the slot table: the one with the lowest chunk_id among the
\* resident chunks that are not in the backlist.
C23_EvictsLowestUnpinned ==
    \A k \in 1 .. Len(evict_calls) :
        LET call == evict_calls[k]
            evictable == ResidentOf(call.before) \ call.backlist
        IN  ~call.raised =>
                /\ evictable # {}
                /\ ResidentOf(call.after) = ResidentOf(call.before) \ {Min(evictable)}
                /\ Cardinality(DOMAIN call.after.cached_chunk_table)
                       = Cardinality(DOMAIN call.before.cached_chunk_table) - 1
                /\ evict_log[k] = Min(evictable)

\* an _evict call that passed over a resident chunk with a lower id because the
\* backlist held it
C23_Witness ==
    /\ Succeeded
    /\ Len(evict_calls) = 1
    /\ ~evict_calls[1].raised
    /\ evict_calls[1].backlist \cap ResidentOf(evict_calls[1].before) # {}
    /\ evict_log[1] > Min(ResidentOf(evict_calls[1].before))

\* C24: an _evict call fails (RuntimeError) exactly when no resident chunk lies
\* outside the backlist, the empty slot table included, and a failing call
\* leaves the slot table, the residency structures, the host store and the
\* transfer counters as it found them.
C24_EvictFailsOnlyWhenAllPinned ==
    \A k \in 1 .. Len(evict_calls) :
        LET call == evict_calls[k]
        IN  /\ call.raised <=> ResidentOf(call.before) \ call.backlist = {}
            /\ call.raised => call.after = call.before

\* a flush of a ChunkParamMgr that wrote one chunk back and then failed on a
\* chunk the backlist held
C24_Witness ==
    /\ mgr_class = "ChunkParamMgr"
    /\ op = "flush"
    /\ ret.status = "RuntimeError"
    /\ Len(evict_calls) = 2
    /\ ~evict_calls[1].raised
    /\ evict_calls[2].raised
    /\ ResidentOf(evict_calls[2].before) # {}
    /\ Resident = ResidentOf(evict_calls[2].before)

\* C25: prepare_ids evicts only to make room for a miss when no slot is free:
\* the call writes back max(0, misses - slots free at its start) chunks, never
\* more chunks than it admits, and has at least as many chunks resident when it
\* ends as when it started.
C25_EvictionsOnlyForMisses ==
    [][(mgr_class = "ChunkParamMgr" /\ op' = "prepare_ids") =>
          LET free == cuda_chunk_num - Cardinality(DOMAIN cached_chunk_table)
              misses == Cardinality(ChunkIdSet(ids') \ Resident)
              short == IF misses > free THEN misses - free ELSE 0
          IN  /\ Len(evict_log') <= Len(admit_log')
              /\ Cardinality(DOMAIN cached_chunk_table')
                     >= Cardinality(DOMAIN cached_chunk_table)
              /\ ret'.status = "ok" =>
                     /\ Len(admit_log') = misses
                     /\ Last(num_miss_history') = misses
                     /\ Len(evict_log') = short
              /\ ret'.status # "ok" => Len(evict_log') = 0]_vars

\* a call with two misses that found one slot free and one occupied by a chunk
\* it did not need: one write-back for two admissions
C25_Witness ==
    /\ Succeeded
    /\ reordered
    /\ cuda_chunk_num = 2
    /\ Last(num_miss_history) = 2
    /\ Len(admit_log) = 2
    /\ Len(evict_log) = 1
    /\ Cardinality(Resident) = 2

\* C26: in every state of a ChunkParamMgr between calls the residency structures
\* agree: a chunk is in cached_chunk_table iff it is a key of
\* chunk_id_cuda_offset iff it is in cached_chunk_ids (once) iff its
\* cpu_chunk_embedding flag is 0, and for a chunk resident in slot s the offset
\* in the table, chunk_id_cuda_offset and CCT are all s * chunk_size.
C26_ResidencyStructuresAgree ==
    mgr_class = "ChunkParamMgr" =>
        /\ \A c \in 0 .. (chunk_num - 1) :
             /\ c \in Resident <=> c \in DOMAIN chunk_id_cuda_offset
             /\ c \in Resident <=>
                    Cardinality({k \in 1 .. Len(cached_chunk_ids) : cached_chunk_ids[k] = c}) = 1
             /\ c \notin Resident <=>
                    Cardinality({k \in 1 .. Len(cached_chunk_ids) : cached_chunk_ids[k] = c}) = 0
             /\ c \in Resident <=> cpu_chunk_embedding[c] = 0
        /\ Resident \subseteq 0 .. (chunk_num - 1)
        /\ DOMAIN chunk_id_cuda_offset \subseteq 0 .. (chunk_num - 1)
        /\ SeqToSet(cached_chunk_ids) \subseteq 0 .. (chunk_num - 1)
        /\ \A slot_idx \in DOMAIN cached_chunk_table :
             LET c == cached_chunk_table[slot_idx].chunk_id
             IN  /\ cached_chunk_table[slot_idx].offset = slot_idx * chunk_size
                 /\ chunk_id_cuda_offset[c] = slot_idx * chunk_size
                 /\ CCT[c] = slot_idx * chunk_size

\* two chunks resident after an eviction, the chunk admitted last in the lower
\* slot, and a chunk written back whose CCT entry still holds its old offset
C26_Witness ==
    /\ mgr_class = "ChunkParamMgr"
    /\ reordered
    /\ Len(cached_chunk_ids) = 2
    /\ SlotOf(cached_chunk_ids[2]) < SlotOf(cached_chunk_ids[1])
    /\ \E c \in 0 .. (chunk_num - 1) : c \notin Resident /\ CCT[c] # Garbage

\* the elements of cuda_partial_weight that belong to slot s: the s-th of the
\* cuda_chunk_num equal parts of the buffer
SlotRegion(slot_idx) ==
    (slot_idx * chunk_size * embedding_dim) .. ((slot_idx + 1) * chunk_size * embedding_dim - 1)

\* the slots whose chunk a step admitted
AdmittedSlots ==
    {slot_idx \in DOMAIN cached_chunk_table' :
        \/ slot_idx \notin DOMAIN cached_chunk_table
        \/ cached_chunk_table[slot_idx].chunk_id # cached_chunk_table'[slot_idx].chunk_id}

\* C27: for both classes and every embedding_dim, prepare_ids writes only the
\* regions of the slots it admits a chunk into, inside the buffer: the payload
\* of a chunk that stays in its slot is not altered, and each admitted chunk's
\* payload is in the region of its slot when the call returns.
C27_AdmissionWritesOwnRegion ==
    [][(op' = "prepare_ids" /\ ret'.status = "ok") =>
          /\ \A slot_idx \in DOMAIN cached_chunk_table' :
                 SlotRegion(slot_idx) \subseteq DOMAIN cuda_partial_weight
          /\ \A e \in DOMAIN cuda_partial_weight :
                 cuda_partial_weight'[e] # cuda_partial_weight[e] =>
                     \E slot_idx \in AdmittedSlots : e \in SlotRegion(slot_idx)
          /\ \A slot_idx \in AdmittedSlots :
                 \A e \in SlotRegion(slot_idx) :
                     cuda_partial_weight'[e] =
                         cpu_weight[cached_chunk_table'[slot_idx].chunk_id
                                        * chunk_size * embedding_dim
                                    + (e - slot_idx * chunk_size * embedding_dim)]]_vars

\* the three tables that hold an index mapping
mapping_vars == <<IMP_chunkid_Embedding, IMP_offsetinchunk_Embedding, index_mapping_table>>

C29_MappingInjectiveInRange ==
    op = "reorder" =>
        /\ \A i, j \in Ids :
             (MappedChunk(i) = MappedChunk(j) /\ MappedOffset(i) = MappedOffset(j)) => i = j
        /\ \A i \in Ids :
             /\ MappedChunk(i) \in 0 .. (chunk_num - 1)
             /\ MappedOffset(i) \in 0 .. (chunk_size - 1)

\* a mapping built from a frequency list with a tie that moved row 0 out of
\* chunk 0, three rows in chunks of two
C29_Witness ==
    /\ op = "reorder"
    /\ ~IsNone(ids_freq_mapping)
    /\ num_embeddings = 3
    /\ chunk_size = 2
    /\ \E i, j \in Ids : i # j /\ ids_freq_mapping[i] = ids_freq_mapping[j]
    /\ MappedChunk(0) = 1

C31_HitsOnlyChangesHistoriesOnly ==
    [][(/\ mgr_class = "ChunkParamMgr"
        /\ op' = "prepare_ids"
        /\ ChunkIdSet(ids') \subseteq Resident) =>
          /\ ret'.status = "ok"
          /\ UNCHANGED <<cached_chunk_table, cpu_weight, cuda_partial_weight,
                         cpu_to_cuda_numel, cuda_to_cpu_numel>>
          /\ num_hits_history' =
                 Append(num_hits_history, Cardinality(ChunkIdSet(ids')))
          /\ num_miss_history' = Append(num_miss_history, 0)
          /\ num_write_back_history' = Append(num_write_back_history, 0)]_vars

\* a second call whose two chunks the first call had admitted: two hits, no miss,
\* nothing admitted and nothing written back
C31_Witness ==
    /\ Succeeded
    /\ reordered
    /\ Len(num_hits_history) = 2
    /\ Last(num_hits_history) = 2
    /\ Last(num_miss_history) = 0
    /\ admit_log = << >>
    /\ evict_log = << >>
    /\ Cardinality(Resident) = 2
    /\ cpu_to_cuda_numel = 2 * chunk_size * embedding_dim

SlotTableAfter(batch) ==
    LET chunk_id_set == ChunkIdSet(batch)
        s0 == [Self EXCEPT !.evict_backlist = chunk_id_set]
    IN  IF ~AssertCapacity(chunk_id_set) \/ (\E c \in chunk_id_set : c >= chunk_num)
        THEN cached_chunk_table
        ELSE _prepare_chunks_on_cuda(s0, cpu_chunk_id_list(s0, chunk_id_set)).cached_chunk_table

\* C33: the slot table a prepare_ids call of a ChunkParamMgr leaves depends only
\* on the state it starts from and on the set of chunks its batch references:
\* every batch with the same working set, whatever the order and multiplicity of
\* its ids, leaves the same slot table from that state; a successful call
\* admits its misses in ascending chunk_id order.
C33_SlotTableDependsOnWorkingSetOnly ==
    [][(mgr_class = "ChunkParamMgr" /\ op' = "prepare_ids") =>
          LET working_set == {IMP_chunkid_Embedding[ids'[i]] : i \in 1 .. Len(ids')}
          IN  /\ \A other \in Batches(num_embeddings, MaxBatchLen) :
                     {IMP_chunkid_Embedding[other[i]] : i \in 1 .. Len(other)} = working_set
                         => SlotTableAfter(other) = cached_chunk_table'
              /\ ret'.status = "ok" => admit_log' = SortedSeq(working_set \ Resident)]_vars

\* a second call whose batch names the higher chunk first: both chunks admitted,
\* the lower one first
C33_Witness ==
    /\ Succeeded
    /\ reordered
    /\ Len(num_hits_history) = 2
    /\ Len(ids) = 2
    /\ IMP_chunkid_Embedding[ids[1]] > IMP_chunkid_Embedding[ids[2]]
    /\ admit_log = <<IMP_chunkid_Embedding[ids[2]], IMP_chunkid_Embedding[ids[1]]>>
    /\ Len(evict_log) > 0

\* C34: flush of a ChunkParamMgr is idempotent and restartable: a flush that
\* finds the slot table empty changes nothing, a flush right after a flush
\* changes nothing, and on a manager whose mapping reorder built a flush empties
\* the slot table and the next prepare_ids (working set within the capacity)
\* counts every chunk of its working set as a miss, admits them all in
\* ascending order into slots 0, 1, ... and returns the addresses of those
\* slots.
C34_FlushIdempotentAndRestartable ==
    [][mgr_class = "ChunkParamMgr" =>
          /\ (op' = "flush" /\ DOMAIN cached_chunk_table = {}) =>
                 /\ ret'.status = "ok"
                 /\ evict_log' = << >>
                 /\ UNCHANGED <<mgr_vars, hist_vars, imp_vars>>
          /\ (op = "flush" /\ op' = "flush") => UNCHANGED <<mgr_vars, hist_vars, imp_vars>>
          /\ (op' = "flush" /\ reordered) =>
                 /\ ret'.status = "ok"
                 /\ DOMAIN cached_chunk_table' = {}
                 /\ cached_chunk_ids' = << >>
                 /\ DOMAIN chunk_id_cuda_offset' = {}
          /\ (/\ op = "flush"
              /\ reordered
              /\ op' = "prepare_ids"
              /\ Cardinality(ChunkIdSet(ids')) <= cuda_chunk_num) =>
                 LET working_set == ChunkIdSet(ids')
                     rank(c) == Cardinality({x \in working_set : x < c})
                 IN  /\ ret'.status = "ok"
                     /\ Last(num_miss_history') = Cardinality(working_set)
                     /\ Last(num_hits_history') = 0
                     /\ admit_log' = SortedSeq(working_set)
                     /\ evict_log' = << >>
                     /\ \A i \in 1 .. Len(ids') :
                            ret'.mapped_ids[i] =
                                rank(IMP_chunkid_Embedding[ids'[i]]) * chunk_size
                                    + IMP_offsetinchunk_Embedding[ids'[i]]]_vars

\* a prepare_ids after a flush that re-admits a chunk the flush had written
\* back, into a slot other than the one it held before
C34_Witness ==
    /\ Succeeded
    /\ reordered
    /\ Len(num_hits_history) = 2
    /\ num_miss_history[1] = 2
    /\ Last(num_miss_history) = 1
    /\ evict_log = << >>
    /\ cuda_to_cpu_numel = 2 * chunk_size * embedding_dim
    /\ cpu_to_cuda_numel = 3 * chunk_size * embedding_dim
    /\ Cardinality(Resident) = 1
    /\ 0 \notin Resident
    /\ 0 \in DOMAIN cached_chunk_table

\* the least number of chunks of chunk_size rows that hold num_embeddings rows
CeilChunks ==
    CHOOSE k \in 0 .. num_embeddings :
        k * chunk_size >= num_embeddings /\ (k - 1) * chunk_size < num_embeddings

\* C35: chunk_num is ceil(num_embeddings / chunk_size); the host store of a
\* ChunkParamMgr holds chunk_num * chunk_size rows in every state, and when the
\* constructor returns its first num_embeddings rows are the rows of the weight
\* given and all the rows after them are zero.
C35_HostStorePaddedToWholeChunks ==
    mgr_class = "ChunkParamMgr" =>
        /\ chunk_num = CeilChunks
        /\ DOMAIN cpu_weight = 0 .. (chunk_num * chunk_size * embedding_dim - 1)
        /\ op = "__init__" =>
               \A e \in DOMAIN cpu_weight :
                   cpu_weight[e] = IF e < num_embeddings * embedding_dim THEN e + 1 ELSE 0

\* a manager just constructed over three rows in chunks of two: two chunks, the
\* second half weight and half padding
C35_Witness ==
    /\ mgr_class = "ChunkParamMgr"
    /\ op = "__init__"
    /\ num_embeddings = 3
    /\ chunk_size = 2
    /\ chunk_num = 2
    /\ cpu_weight[2 * embedding_dim] # 0
    /\ cpu_weight[3 * embedding_dim] = 0

\* C36: an _admit call of either class that finds no slot free and whose _evict
\* succeeds writes back exactly one chunk and puts the new chunk into the slot
\* that chunk held: the slot table has the same slots as before, all of them in
\* 0 .. cuda_chunk_num - 1, the freed slot holds the new chunk at offset
\* slot * chunk_size and every other slot holds what it held.
C36_AdmitWhenFullUsesFreedSlot ==
    (op = "_admit" /\ Len(evict_calls) = 1 /\ ~evict_calls[1].raised) =>
        LET before == evict_calls[1].before.cached_chunk_table
            freed == DOMAIN before \ DOMAIN evict_calls[1].after.cached_chunk_table
        IN  /\ ret.status = "ok"
            /\ Len(evict_log) = 1
            /\ admit_log = ids
            /\ Cardinality(freed) = 1
            /\ DOMAIN cached_chunk_table = DOMAIN before
            /\ DOMAIN cached_chunk_table \subseteq 0 .. (cuda_chunk_num - 1)
            /\ \A slot_idx \in DOMAIN cached_chunk_table :
                   cached_chunk_table[slot_idx] =
                       IF slot_idx \in freed
                       THEN [chunk_id |-> ids[1], offset |-> slot_idx * chunk_size]
                       ELSE before[slot_idx]

\* C37: _find_free_cuda_slot of a ChunkParamMgr returns the lowest slot index of
\* 0 .. cuda_chunk_num - 1 that is not a key of the slot table, and -1 exactly
\* when every one of those indices is a key (always, when cuda_chunk_num is 0).
C37_FindFreeSlotReturnsLowestFree ==
    op = "_find_free_cuda_slot" =>
        LET slot_idx == ret.mapped_ids[1]
            slots == 0 .. (cuda_chunk_num - 1)
        IN  /\ slot_idx = 0 - 1 <=> slots \subseteq DOMAIN cached_chunk_table
            /\ slot_idx # 0 - 1 =>
                   /\ slot_idx \in slots
                   /\ slot_idx \notin DOMAIN cached_chunk_table
                   /\ \A lower \in 0 .. (slot_idx - 1) : lower \in DOMAIN cached_chunk_table
            /\ cuda_chunk_num = 0 => slot_idx = 0 - 1

\* slot 1 occupied and slot 0 free, after the chunk of slot 0 was written back:
\* slot 0 returned
C37_Witness ==
    /\ op = "_find_free_cuda_slot"
    /\ cuda_chunk_num = 2
    /\ cuda_to_cpu_numel > 0
    /\ DOMAIN cached_chunk_table = {1}
    /\ ret.mapped_ids = <<0>>
====
